---- MODULE Spec2Model ----
(***************************************************************************)
(* Model of the Obsidian exporter (src/unnamed/part_000): the graph walk   *)
(* over notes and attachments, the content-compared registries with their  *)
(* rename-on-collision step, and the link rewrite pass that follows.       *)
(*                                                                         *)
(* Strings are sequences of tokens (a token is a run of characters that    *)
(* the program never splits: "png", "md", a directory name, one            *)
(* punctuation character).  A link target as written in a document is one  *)
(* flat token sequence with "/" tokens in it; an absolute path is a        *)
(* sequence of segments, each segment a token sequence.  The vault root    *)
(* VAULT_DIR is the segment <<"V">>, the working directory is <<"C">>.     *)
(* File names are drawn from characters that are literal in a regular      *)
(* expression.                                                             *)
(***************************************************************************)
EXTENDS Integers, Sequences, FiniteSets, TLC

\* ------------------------------------------------------------------------
\* Bounds of the model
\* ------------------------------------------------------------------------

\* Longest list of links in the seed note A.md.
MaxLinks == 2

\* Deepest call stack (frames of resolveAndCopyAttachments/resolveAndCopyNotes).
MaxStack == 12

\* ------------------------------------------------------------------------
\* Strings and paths (node's path module)
\* ------------------------------------------------------------------------

\* Characters that are not in [a-zA-Z0-9].
Punct == {".", "/", "_", "#", " ", "%20", "|"}

IsAlnum(seq) == Len(seq) > 0 /\ \A i \in 1..Len(seq) : seq[i] \notin Punct

\* Index of the last/first occurrence of token c in s, 0 when absent.
LastIndexOf(s, c) ==
  LET I == {i \in 1..Len(s) : s[i] = c}
  IN  IF I = {} THEN 0 ELSE CHOOSE i \in I : \A j \in I : j <= i

IndexOf(s, c) ==
  LET I == {i \in 1..Len(s) : s[i] = c}
  IN  IF I = {} THEN 0 ELSE CHOOSE i \in I : \A j \in I : i <= j

StartsWith(s, p) == Len(s) >= Len(p) /\ SubSeq(s, 1, Len(p)) = p

EndsWith(s, p) == Len(s) >= Len(p) /\ SubSeq(s, Len(s) - Len(p) + 1, Len(s)) = p

\* link.includes("/")
HasSlash(s) == IndexOf(s, "/") # 0

\* The "/"-separated segments of a string.
RECURSIVE Split(_)
Split(s) ==
  LET i == IndexOf(s, "/")
  IN  IF i = 0 THEN <<s>>
      ELSE <<SubSeq(s, 1, i - 1)>> \o Split(SubSeq(s, i + 1, Len(s)))

\* path.basename of a string as written
BasenameStr(s) == LET i == LastIndexOf(s, "/") IN SubSeq(s, i + 1, Len(s))

\* path.basename / path.dirname of an absolute path
Basename(p) == p[Len(p)]

Dirname(p) == SubSeq(p, 1, Len(p) - 1)

\* path.extname of a file name: from its last "." on, unless the name has
\* none or starts with it.
ExtOfName(n) ==
  LET i == LastIndexOf(n, ".")
  IN  IF i <= 1 THEN <<>> ELSE SubSeq(n, i, Len(n))

\* path.parse(n).name
StemOfName(n) == SubSeq(n, 1, Len(n) - Len(ExtOfName(n)))

\* path.extname of a string as written
ExtName(s) == ExtOfName(BasenameStr(s))

\* path.normalize on segments: "." is dropped and ".." removes the segment
\* before it.
RECURSIVE Normalize(_, _)
Normalize(done, rest) ==
  IF rest = <<>> THEN done
  ELSE LET h == Head(rest)
       IN  IF h = <<".">> \/ h = <<>> THEN Normalize(done, Tail(rest))
           ELSE IF h = <<".", ".">>
                THEN Normalize(IF Len(done) > 1 THEN SubSeq(done, 1, Len(done) - 1)
                               ELSE done, Tail(rest))
                ELSE Normalize(Append(done, h), Tail(rest))

\* path.join(dir, s) and path.resolve(dir, s) for a relative string s
PathJoin(dir, s) == Normalize(dir, Split(s))

\* decodeURIComponent / encodeURIComponent on the one escaped character of
\* the alphabet.
DecodeURIComponent(s) == [i \in 1..Len(s) |-> IF s[i] = "%20" THEN " " ELSE s[i]]

EncodeURIComponent(s) == [i \in 1..Len(s) |-> IF s[i] = " " THEN "%20" ELSE s[i]]

\* ------------------------------------------------------------------------
\* Program constants
\* ------------------------------------------------------------------------

VAULT_DIR == << <<"V">> >>

ATTACHMENTS_DIR == Append(VAULT_DIR, <<"_", "attachments">>)

EXCALIDRAW_REPLACEMENT == <<".", "dark", ".", "png">>

\* process.cwd()
Cwd == << <<"C">> >>

\* ------------------------------------------------------------------------
\* File contents
\* ------------------------------------------------------------------------

\* A file's content is a sequence of items: a link (k = "wiki" for [[t|a]],
\* k = "md" for [a](t)) or a run of other bytes (k = "blob").
WikiLink(t) == [k |-> "wiki", t |-> t, a |-> <<>>]

WikiAlias(t, a) == [k |-> "wiki", t |-> t, a |-> a]

MdLink(t) == [k |-> "md", t |-> t, a |-> <<"txt">>]

Blob(b) == [k |-> "blob", t |-> <<b>>, a |-> <<>>]

\* fs.stat(...).size
RECURSIVE SizeOf(_)
SizeOf(text) ==
  IF text = <<>> THEN 0
  ELSE 1 + Len(Head(text).t) + Len(Head(text).a) + SizeOf(Tail(text))

\* Every token a vault file is written with, in a fixed order.
Alphabet ==
  <<"wiki", "md", "blob", ".", "/", "_", "#", " ", "%20", "|", "A", "B", "N",
    "M", "x", "y", "z", "d1", "d2", "png", "jpg", "txt", "p", "q", "h",
    "al", "excalidraw", "dark", "http://">>

TokCode(t) == IndexOf(Alphabet, t)

\* The bytes of a content, as numbers.
RECURSIVE Bytes(_)
Bytes(text) ==
  IF text = <<>> THEN <<>>
  ELSE LET it == Head(text)
       IN  <<TokCode(it.k)>> \o [i \in 1..Len(it.t) |-> TokCode(it.t[i])] \o <<0>>
             \o [i \in 1..Len(it.a) |-> TokCode(it.a[i])] \o <<0>> \o Bytes(Tail(text))

HashBase == 41

HashMod == 1000003

\* createHash("sha256").update(content).digest("hex").substring(0, 8), as a
\* digest of the bytes: a function of the content alone.  No two contents of
\* a vault of the model share a digest (NoDigestCollision is an invariant).
RECURSIVE Digest(_, _)
Digest(h, bytes) ==
  IF bytes = <<>> THEN h
  ELSE Digest((h * HashBase + Head(bytes) + 1) % HashMod, Tail(bytes))

Sha256Hex8(text) == ToString(Digest(7, Bytes(text)))

\* ------------------------------------------------------------------------
\* State
\* ------------------------------------------------------------------------

VARIABLES
  vault,             \* the store: files in directory-traversal order,
                     \*   each [path, text, perm]
  inputType,         \* "file" or "folder" (main: stats.isDirectory())
  outName,           \* basename of outputDir
  todo,              \* seed documents still to be processed, in order
  stack,             \* call stack of the walk: frames [fn, base, items]
  out,               \* the output tree: path -> [text, src], the content of
                     \*   the file and the store file it is a copy of
  uniqueAttachments, \* Map: sequence of [path, ref] in insertion order
  uniqueNotes,       \* Map: sequence of [path, ref] in insertion order
  visitedNotes,      \* Set of note link strings
  renamedFiles,      \* object: link string or name -> name
  phase,             \* "walk", "rewrite", "done", "aborted", "exited"
  rewriteTodo,       \* documents of the output tree still to be rewritten
  exitCode,          \* exit status of the process, -1 while it runs
  log,               \* messages written so far: [lvl, what, arg]
  reached            \* store files a link of the walk has resolved to

vars ==
  <<vault, inputType, outName, todo, stack, out, uniqueAttachments, uniqueNotes,
    visitedNotes, renamedFiles, phase, rewriteTodo, exitCode, log, reached>>

\* main: outputDir = path.join(process.cwd(), basename(fullPath) without ".md")
OutputDir == Append(Cwd, outName)

\* A path that stands for "no result" (null).
Null == <<>>

\* ------------------------------------------------------------------------
\* File system primitives (fs/promises) over the vault and the output tree
\* ------------------------------------------------------------------------

VaultPaths == {vault[i].path : i \in 1..Len(vault)}

VaultEntry(p) == vault[CHOOSE i \in 1..Len(vault) : vault[i].path = p]

Exists(o, p) == p \in DOMAIN o \/ p \in VaultPaths

\* fs.access(p, R_OK) and the error of fs.readFile(p)
ReadErr(o, p) ==
  IF p \in DOMAIN o THEN "OK"
  ELSE IF p \notin VaultPaths THEN "ENOENT"
  ELSE IF VaultEntry(p).perm = "r" THEN "OK" ELSE "EACCES"

\* fs.stat(p): only a missing file fails
StatErr(o, p) == IF Exists(o, p) THEN "OK" ELSE "ENOENT"

\* Content of an existing file
Content(o, p) == IF p \in DOMAIN o THEN o[p].text ELSE VaultEntry(p).text

\* The store file an existing file is, or is a copy of
Source(o, p) == IF p \in DOMAIN o THEN o[p].src ELSE p

\* The tree after writing file f at p
WriteFile(o, p, f) == [q \in DOMAIN o \cup {p} |-> IF q = p THEN f ELSE o[q]]

\* The tree after removing p
RemoveFile(o, p) == [q \in DOMAIN o \ {p} |-> o[q]]

\* copyFileToOutput: the tree afterwards, the error thrown ("OK" if none)
\* and whether the not-found warning was logged.
copyFileToOutput(o, sourcePath, destinationPath) ==
  LET e == ReadErr(o, sourcePath)
  IN  IF e = "OK"
        THEN [out |-> WriteFile(o, destinationPath,
                                [text |-> Content(o, sourcePath),
                                 src |-> Source(o, sourcePath)]),
              err |-> "OK", warned |-> FALSE]
      ELSE IF e = "ENOENT"
        THEN [out |-> o, err |-> "OK", warned |-> TRUE]
      ELSE [out |-> o, err |-> e, warned |-> FALSE]

\* A unique name numbered after the files exported so far
generateCountedName(o, filePath) ==
  [err |-> ReadErr(o, filePath),
   name |-> StemOfName(Basename(filePath))
              \o <<"_", ToString(Cardinality(DOMAIN o))>>
              \o ExtOfName(Basename(filePath))]

\* generateUniqueName: the name, or err # "OK" when the read fails (the
\* function then ends the process with status 1).
generateUniqueName(o, filePath) ==
  LET e == ReadErr(o, filePath)
      n == Basename(filePath)
  IN  IF e = "OK"
        THEN [err |-> "OK",
              name |-> StemOfName(n) \o <<"_", Sha256Hex8(Content(o, filePath))>>
                         \o ExtOfName(n)]
      ELSE [err |-> e, name |-> <<>>]

\* ------------------------------------------------------------------------
\* LinkParser and PathResolver
\* ------------------------------------------------------------------------

Schemes == {"http://"}

\* A parser without the lookahead: no target is taken to begin with a scheme
NoScheme(t) == FALSE

\* the negative lookahead (?![a-zA-Z][a-zA-Z\d+\-.]*:\/\/)
HasScheme(t) == Len(t) > 0 /\ t[1] \in Schemes

\* processLink: the classified link
processLink(link) ==
  LET decodedLink == DecodeURIComponent(link)
      i == IndexOf(decodedLink, "#")
      cleanLink == IF i = 0 THEN decodedLink ELSE SubSeq(decodedLink, 1, i - 1)
      extension == ExtName(cleanLink)
  IN  IF extension # <<>> /\ extension # <<".", "md">>
        THEN [kind |-> "att",
              s |-> IF EndsWith(cleanLink, <<".", "excalidraw">>)
                      THEN cleanLink \o EXCALIDRAW_REPLACEMENT ELSE cleanLink]
      ELSE [kind |-> "note",
            s |-> IF extension # <<>> THEN cleanLink ELSE cleanLink \o <<".", "md">>]

\* The links of a text in the order the two regular expressions yield them:
\* every wikilink, then every inline link.
MatchedLinks(text) ==
  LET isWiki(it) == it.k = "wiki" /\ ~HasScheme(it.t)
      isMd(it) == it.k = "md" /\ ~HasScheme(it.t)
      l == SelectSeq(text, isWiki) \o SelectSeq(text, isMd)
  IN  [i \in 1..Len(l) |-> processLink(l[i].t)]

parseMarkdownForLinks(text) ==
  LET l == MatchedLinks(text)
      isAtt(x) == x.kind = "att"
      isNote(x) == x.kind = "note"
      a == SelectSeq(l, isAtt)
      n == SelectSeq(l, isNote)
  IN  [attachments |-> [i \in 1..Len(a) |-> a[i].s],
       notes |-> [i \in 1..Len(n) |-> n[i].s]]

\* findFileInVault: the first file of the traversal with that name, or null
findFileInVault(fileName) ==
  LET I == {i \in 1..Len(vault) : Basename(vault[i].path) = fileName}
  IN  IF I = {} THEN Null
      ELSE vault[CHOOSE i \in I : \A j \in I : i <= j].path

resolveFilePath(basePath, link) ==
  IF ~HasSlash(link)
    THEN IF Append(ATTACHMENTS_DIR, link) \in VaultPaths
           THEN Append(ATTACHMENTS_DIR, link)
         ELSE findFileInVault(link)
  ELSE IF StartsWith(link, <<".", ".", "/">>) \/ StartsWith(link, <<".", "/">>)
    THEN PathJoin(Dirname(basePath), link)
  ELSE PathJoin(VAULT_DIR, link)

\* ------------------------------------------------------------------------
\* Map, object and log helpers
\* ------------------------------------------------------------------------

EmptyMap == [q \in {} |-> <<>>]

\* Map.prototype.set: an existing key keeps its place, a new one goes last
MapSet(m, k, v) ==
  IF \E i \in 1..Len(m) : m[i].path = k
    THEN [i \in 1..Len(m) |-> IF m[i].path = k THEN [path |-> k, ref |-> v] ELSE m[i]]
  ELSE Append(m, [path |-> k, ref |-> v])

\* Map.prototype.delete
MapDelete(m, k) == LET keep(e) == e.path # k IN SelectSeq(m, keep)

MapKeys(m) == {m[i].path : i \in 1..Len(m)}

\* renamedFiles[k] = v
ObjSet(r, k, v) == [q \in DOMAIN r \cup {k} |-> IF q = k THEN v ELSE r[q]]

Msg(lvl, what, arg) == [lvl |-> lvl, what |-> what, arg |-> arg]

\* The elements of a sequence
Range(q) == {q[i] : i \in 1..Len(q)}

\* Largest element of a non-empty set of numbers
Max(S) == CHOOSE i \in S : \A j \in S : j <= i

\* Smallest index of a set of indices, 0 for the empty set
MinIdx(I) == IF I = {} THEN 0 ELSE CHOOSE i \in I : \A j \in I : i <= j

\* ------------------------------------------------------------------------
\* DedupRegistry
\* ------------------------------------------------------------------------

\* The try block of the content check: does it throw, and does it find the
\* two files equal.
CompareThrows(o, existingPath, resolvedPath) ==
  \/ StatErr(o, existingPath) # "OK"
  \/ StatErr(o, resolvedPath) # "OK"
  \/ /\ SizeOf(Content(o, existingPath)) = SizeOf(Content(o, resolvedPath))
     /\ (ReadErr(o, existingPath) # "OK" \/ ReadErr(o, resolvedPath) # "OK")

SameContent(o, existingPath, resolvedPath) ==
  /\ ~CompareThrows(o, existingPath, resolvedPath)
  /\ SizeOf(Content(o, existingPath)) = SizeOf(Content(o, resolvedPath))
  /\ Content(o, existingPath) = Content(o, resolvedPath)

\* A registry in which no entry is ever found to hold the candidate's bytes
NoContentMatch(o, reg, resolvedPath) == 0

\* Index of the first registry entry with the candidate's basename and
\* content, 0 if there is none.
ContentMatch(o, reg, resolvedPath) ==
  MinIdx({i \in 1..Len(reg) :
            /\ Basename(reg[i].path) = Basename(resolvedPath)
            /\ SameContent(o, reg[i].path, resolvedPath)})

\* The comparisons that threw before the loop ended: each is logged and the
\* loop goes on.
CompareErrors(o, reg, resolvedPath, ref) ==
  LET m == ContentMatch(o, reg, resolvedPath)
      last == IF m = 0 THEN Len(reg) ELSE m
  IN  IF \E i \in 1..last : /\ Basename(reg[i].path) = Basename(resolvedPath)
                            /\ CompareThrows(o, reg[i].path, resolvedPath)
        THEN {Msg("error", "Error comparing files", ref)}
      ELSE {}

\* Index of the first registry entry with the candidate's basename, 0 if none
SameNameEntry(reg, resolvedName) ==
  MinIdx({i \in 1..Len(reg) : Basename(reg[i].path) = resolvedName})

\* existingCheckRegex.test(name) for
\* ^<stem>(_[a-zA-Z0-9]+)?\.[a-zA-Z0-9]+$ (stem of literal characters)
RegexTest(stem, name) ==
  /\ StartsWith(name, stem)
  /\ LET r == SubSeq(name, Len(stem) + 1, Len(name))
         d == IndexOf(r, ".")
         pre == SubSeq(r, 1, d - 1)
         post == SubSeq(r, d + 1, Len(r))
     IN  /\ d > 0
         /\ IsAlnum(post)
         /\ (pre = <<>> \/ (pre[1] = "_" /\ IsAlnum(Tail(pre))))

RegexCollision(reg, resolvedName) ==
  \E i \in 1..Len(reg) : RegexTest(StemOfName(resolvedName), Basename(reg[i].path))

\* fs.rename(from, to): the tree afterwards; it throws when from is missing
RenameErr(o, from) == IF from \in DOMAIN o THEN "OK" ELSE "ENOENT"

Rename(o, from, to) == WriteFile(RemoveFile(o, from), to, o[from])

\* ------------------------------------------------------------------------
\* GraphWalker: one iteration of each loop
\* ------------------------------------------------------------------------

globalAttachmentsDir == Append(OutputDir, <<"attachments">>)

referencesFolder == Append(OutputDir, <<"references">>)

\* The result of an iteration: the tree, the registry and the rename table
\* it leaves, how it ended ("ok", "throw" for an exception that reaches
\* main, "exit" for process.exit(1)) and what it logged.
Outcome(o, reg, ren, status, msgs) ==
  [out |-> o, reg |-> reg, ren |-> ren, status |-> status, msgs |-> msgs]

\* resolveAndCopyAttachments, lines 185-200: the name of the current file,
\* its copy and its registration.
AttachmentExport(o, reg, ren, resolvedPath, attachment, msgs) ==
  LET resolvedName == Basename(resolvedPath)
      collisionDetected == RegexCollision(reg, resolvedName)
      gen == generateUniqueName(o, resolvedPath)
      uniqueName == IF collisionDetected THEN gen.name ELSE resolvedName
      ren2 == IF collisionDetected THEN ObjSet(ren, attachment, uniqueName) ELSE ren
      destinationPath == Append(globalAttachmentsDir, uniqueName)
      cp == copyFileToOutput(o, resolvedPath, destinationPath)
  IN  IF collisionDetected /\ gen.err # "OK"
        THEN Outcome(o, reg, ren, "exit",
                     msgs \cup {Msg("error", "Error generating unique name", attachment)})
      ELSE IF cp.err # "OK"
        THEN Outcome(o, reg, ren2, "throw", msgs)
      ELSE Outcome(cp.out, MapSet(reg, destinationPath, attachment), ren2, "ok",
                   msgs \cup (IF cp.warned
                                THEN {Msg("warn", "Source file not found", attachment)}
                              ELSE {}))

\* resolveAndCopyAttachments, lines 166-183: the exported entry with the
\* candidate's name is renamed after its content.
AttachmentCollision(o, reg, ren, resolvedPath, attachment, msgs) ==
  LET e == SameNameEntry(reg, Basename(resolvedPath))
      existingPath == reg[e].path
      gen == generateUniqueName(o, existingPath)
      from == Append(globalAttachmentsDir, Basename(existingPath))
      newExistingPath == Append(globalAttachmentsDir, gen.name)
  IN  IF e = 0
        THEN AttachmentExport(o, reg, ren, resolvedPath, attachment, msgs)
      ELSE IF gen.err # "OK"
        THEN Outcome(o, reg, ren, "exit",
                     msgs \cup {Msg("error", "Error generating unique name", attachment)})
      ELSE IF RenameErr(o, from) # "OK"
        THEN Outcome(o, reg, ren, "throw", msgs)
      ELSE AttachmentExport(Rename(o, from, newExistingPath),
                            MapSet(MapDelete(reg, existingPath), newExistingPath,
                                   reg[e].ref),
                            ObjSet(ren, reg[e].ref, gen.name),
                            resolvedPath, attachment, msgs)

\* resolveAndCopyAttachments, the body of the loop over attachments
AttachmentIter(o, reg, ren, basePath, attachment) ==
  LET resolvedPath == resolveFilePath(basePath, attachment)
      cmpErrs == CompareErrors(o, reg, resolvedPath, attachment)
  IN  IF resolvedPath = Null
        THEN Outcome(o, reg, ren, "ok", {Msg("warn", "Attachment not found", attachment)})
      ELSE IF ContentMatch(o, reg, resolvedPath) # 0
        THEN Outcome(o, reg, ren, "ok",
                     cmpErrs \cup {Msg("info", "Attachment already exists", attachment)})
      ELSE AttachmentCollision(o, reg, ren, resolvedPath, attachment, cmpErrs)

\* resolveAndCopyNotes, line 238: path.relative(outputDir, <stem>) neither
\* starts with ".." nor is absolute.  The stem is resolved against the
\* working directory, so the relative path is "" for the stem that is the
\* output directory's own name and "../<stem>" for every other one.
InOutputDir(resolvedName) == StemOfName(resolvedName) = outName

\* The result of an iteration over a note also tells whether the note was
\* copied, so that the iteration goes on to parse it and to recurse.
NoteOutcome(o, reg, ren, status, msgs, copied) ==
  [out |-> o, reg |-> reg, ren |-> ren, status |-> status, msgs |-> msgs,
   copied |-> copied]

\* resolveAndCopyNotes, lines 301-311: the name of the current note, its
\* copy, its registration and the read that parses it.
NoteExport(o, reg, ren, resolvedPath, note, collisionDetected, msgs) ==
  LET gen == generateUniqueName(o, resolvedPath)
      uniqueName == IF collisionDetected THEN gen.name ELSE Basename(resolvedPath)
      ren2 == IF collisionDetected THEN ObjSet(ren, note, uniqueName) ELSE ren
      finalPath == Append(referencesFolder, uniqueName)
      cp == copyFileToOutput(o, resolvedPath, finalPath)
  IN  IF collisionDetected /\ gen.err # "OK"
        THEN NoteOutcome(o, reg, ren, "exit",
                         msgs \cup {Msg("error", "Error generating unique name", note)},
                         FALSE)
      ELSE IF cp.err # "OK"
        THEN NoteOutcome(o, reg, ren2, "throw", msgs, FALSE)
      ELSE IF ReadErr(cp.out, resolvedPath) # "OK"
        THEN NoteOutcome(cp.out, MapSet(reg, finalPath, note), ren2, "throw",
                         msgs \cup {Msg("warn", "Source file not found", note)}, FALSE)
      ELSE NoteOutcome(cp.out, MapSet(reg, finalPath, note), ren2, "ok", msgs, TRUE)

\* resolveAndCopyNotes, lines 278-299: the collision test on the registry
\* as it stands, then the rename of the entry with the candidate's name.
NoteCollision(o, reg, ren, resolvedPath, note, msgs) ==
  LET resolvedName == Basename(resolvedPath)
      e == SameNameEntry(reg, resolvedName)
      existingPath == reg[e].path
      collisionDetected == RegexCollision(reg, resolvedName)
      gen == generateUniqueName(o, existingPath)
      from == Append(referencesFolder, Basename(existingPath))
      newExistingPath == Append(referencesFolder, gen.name)
  IN  IF e = 0
        THEN NoteExport(o, reg, ren, resolvedPath, note, collisionDetected, msgs)
      ELSE IF gen.err # "OK"
        THEN NoteOutcome(o, reg, ren, "exit",
                         msgs \cup {Msg("error", "Error generating unique name", note)},
                         FALSE)
      ELSE IF RenameErr(o, from) # "OK"
        THEN NoteOutcome(o, reg, ren, "throw", msgs, FALSE)
      ELSE NoteExport(Rename(o, from, newExistingPath),
                      MapSet(MapDelete(reg, existingPath), newExistingPath, reg[e].ref),
                      ObjSet(ren, reg[e].ref, gen.name),
                      resolvedPath, note, TRUE, msgs)

\* resolveAndCopyNotes, the body of the loop over notes for a note that has
\* not been visited, given the path it resolved to.
NoteIter(o, reg, ren, resolvedPath, note) ==
  LET cmpErrs == CompareErrors(o, reg, resolvedPath, note)
  IN  IF resolvedPath = Null
        THEN NoteOutcome(o, reg, ren, "ok", {Msg("warn", "Note not found", note)}, FALSE)
      ELSE IF InOutputDir(Basename(resolvedPath))
        THEN NoteOutcome(o, MapSet(reg, resolvedPath, note), ren, "ok", {}, FALSE)
      ELSE IF ContentMatch(o, reg, resolvedPath) # 0
        THEN NoteOutcome(o, reg, ren, "ok",
                         cmpErrs \cup {Msg("info", "Note already exists", note)}, FALSE)
      ELSE NoteCollision(o, reg, ren, resolvedPath, note, cmpErrs)

\* ------------------------------------------------------------------------
\* Actions
\* ------------------------------------------------------------------------

Frame(fn, base, items) == [fn |-> fn, base |-> base, items |-> items]

\* The two calls a document's links lead to: resolveAndCopyAttachments
\* first, resolveAndCopyNotes after it.  A call whose list is empty returns
\* at once and leaves no frame.
CallsFor(filePath, text) ==
  LET links == parseMarkdownForLinks(text)
      calls == <<Frame("att", filePath, links.attachments),
                 Frame("notes", filePath, links.notes)>>
      runs(f) == f.items # <<>>
  IN  SelectSeq(calls, runs)

\* main's catch block: the error is printed and main returns.
Caught(msgs) ==
  /\ phase' = "aborted"
  /\ exitCode' = 0
  /\ log' = log \cup msgs \cup {Msg("error", "Error", <<>>)}

\* process.exit(1) in generateUniqueName
Exited(msgs) ==
  /\ phase' = "exited"
  /\ exitCode' = 1
  /\ log' = log \cup msgs

\* processFolder/main hand the next seed to processMarkdownFile, which
\* copies it and parses it.
StartSeed ==
  /\ phase = "walk"
  /\ stack = <<>>
  /\ todo # <<>>
  /\ LET filePath == Head(todo)
         destinationPath ==
           IF inputType = "file" THEN Append(OutputDir, Basename(filePath))
           ELSE OutputDir \o Tail(filePath)
         cp == copyFileToOutput(out, filePath, destinationPath)
     IN  /\ out' = cp.out
         /\ todo' = Tail(todo)
         /\ IF cp.err # "OK" \/ ReadErr(out, filePath) # "OK"
              THEN Caught({}) /\ UNCHANGED stack
            ELSE /\ stack' = CallsFor(filePath, Content(out, filePath))
                 /\ UNCHANGED <<phase, exitCode, log>>
  /\ UNCHANGED <<vault, inputType, outName, uniqueAttachments, uniqueNotes,
                 visitedNotes, renamedFiles, rewriteTodo, reached>>

\* The stack with the first item of its top frame consumed; the call
\* returns when that was its last item.
Advanced ==
  IF Len(Head(stack).items) = 1 THEN Tail(stack)
  ELSE <<[Head(stack) EXCEPT !.items = Tail(@)]>> \o Tail(stack)

\* One iteration of the loop of resolveAndCopyAttachments.
AttachmentStep ==
  /\ phase = "walk"
  /\ stack # <<>>
  /\ Head(stack).fn = "att"
  /\ Head(stack).items # <<>>
  /\ LET r == AttachmentIter(out, uniqueAttachments, renamedFiles,
                             Head(stack).base, Head(Head(stack).items))
     IN  /\ out' = r.out
         /\ uniqueAttachments' = r.reg
         /\ renamedFiles' = r.ren
         /\ stack' = Advanced
         /\ CASE r.status = "ok" -> /\ log' = log \cup r.msgs
                                    /\ UNCHANGED <<phase, exitCode>>
              [] r.status = "throw" -> Caught(r.msgs)
              [] r.status = "exit" -> Exited(r.msgs)
  /\ reached' = reached \cup
       ({resolveFilePath(Head(stack).base, Head(Head(stack).items))} \cap VaultPaths)
  /\ UNCHANGED <<vault, inputType, outName, todo, uniqueNotes, visitedNotes,
                 rewriteTodo>>

\* A walk that keeps no record of the notes it has met
NeverVisited(note) == FALSE

\* visitedNotes.has(note)
Visited(note) == note \in visitedNotes

\* A set that keeps only the element added last
AddAlone(S, x) == {x}

\* visitedNotes.add(note)
Add(S, x) == S \cup {x}

\* One iteration of the loop of resolveAndCopyNotes: a visited note is
\* passed over; any other one is marked, resolved, exported and, when it
\* was copied, parsed for the two nested calls.
NoteStep ==
  /\ phase = "walk"
  /\ stack # <<>>
  /\ Head(stack).fn = "notes"
  /\ Head(stack).items # <<>>
  /\ Len(stack) + 2 <= MaxStack
  /\ LET note == Head(Head(stack).items)
         resolvedPath == resolveFilePath(Head(stack).base, note)
         r == NoteIter(out, uniqueNotes, renamedFiles, resolvedPath, note)
     IN  IF Visited(note)
           THEN /\ stack' = Advanced
                /\ UNCHANGED <<out, uniqueNotes, renamedFiles, visitedNotes, phase,
                               exitCode, log, reached>>
         ELSE /\ visitedNotes' = Add(visitedNotes, note)
              /\ reached' = reached \cup ({resolvedPath} \cap VaultPaths)
              /\ out' = r.out
              /\ uniqueNotes' = r.reg
              /\ renamedFiles' = r.ren
              /\ stack' = IF r.copied
                            THEN CallsFor(resolvedPath, Content(out, resolvedPath))
                                   \o Advanced
                          ELSE Advanced
              /\ CASE r.status = "ok" -> /\ log' = log \cup r.msgs
                                         /\ UNCHANGED <<phase, exitCode>>
                   [] r.status = "throw" -> Caught(r.msgs)
                   [] r.status = "exit" -> Exited(r.msgs)
  /\ UNCHANGED <<vault, inputType, outName, todo, uniqueAttachments, rewriteTodo>>

\* ------------------------------------------------------------------------
\* LinkRewriter
\* ------------------------------------------------------------------------

\* renamedFiles[k] || d
Lookup(ren, k, d) == IF k \in DOMAIN ren THEN ren[k] ELSE d

\* A wikilink callback that looks the link up without its path
WikiTargetByBasename(ren, link) ==
  LET cleanedLink == BasenameStr(DecodeURIComponent(link))
      updatedName == Lookup(ren, cleanedLink, cleanedLink)
  IN  Lookup(ren, updatedName, updatedName)

\* The replacement callbacks of updateLinks: the new target of a wikilink
\* and of an inline link.
UpdatedWikiTarget(ren, link) ==
  LET isAttachmentLink == ExtName(link) # <<>>
      decodedLink == DecodeURIComponent(link)
      cleanedLink == BasenameStr(decodedLink)
      updatedLink == decodedLink \o (IF isAttachmentLink THEN <<>> ELSE <<".", "md">>)
      updatedName == Lookup(ren, updatedLink, cleanedLink)
  IN  Lookup(ren, updatedName, updatedName)

UpdatedMdTarget(ren, link) ==
  LET decodedLink == DecodeURIComponent(link)
      cleanedLink == BasenameStr(decodedLink)
      updatedName == Lookup(ren, decodedLink, cleanedLink)
  IN  EncodeURIComponent(Lookup(ren, updatedName, updatedName))

\* updateLinks: the content after both replacements
updateLinks(text, ren) ==
  [i \in 1..Len(text) |->
     IF text[i].k = "wiki" /\ ~HasScheme(text[i].t)
       THEN [text[i] EXCEPT !.t = UpdatedWikiTarget(ren, @)]
     ELSE IF text[i].k = "md" /\ ~HasScheme(text[i].t)
       THEN [text[i] EXCEPT !.t = UpdatedMdTarget(ren, @)]
     ELSE text[i]]

IsMarkdownName(n) == EndsWith(n, <<".", "md">>)

\* fs.readdir: the elements of S in the order of the listing, which is some
\* fixed order.
RECURSIVE Listing(_)
Listing(S) ==
  IF S = {} THEN <<>>
  ELSE LET p == CHOOSE q \in S : TRUE IN <<p>> \o Listing(S \ {p})

\* A rewrite that begins when the walk over one seed has returned
RewriteAfterSeed ==
  /\ phase = "walk"
  /\ stack = <<>>
  /\ phase' = "rewrite"
  /\ rewriteTodo' = Listing({p \in DOMAIN out : IsMarkdownName(Basename(p))})
  /\ UNCHANGED <<vault, inputType, outName, todo, stack, out, uniqueAttachments,
                 uniqueNotes, visitedNotes, renamedFiles, exitCode, log, reached>>

\* main, after the walk over every seed has returned: updateLinksInDirectory
\* lists the documents of the output tree.
BeginRewrite ==
  /\ phase = "walk"
  /\ stack = <<>>
  /\ todo = <<>>
  /\ phase' = "rewrite"
  /\ rewriteTodo' = Listing({p \in DOMAIN out : IsMarkdownName(Basename(p))})
  /\ UNCHANGED <<vault, inputType, outName, todo, stack, out, uniqueAttachments,
                 uniqueNotes, visitedNotes, renamedFiles, exitCode, log, reached>>

\* updateLinks on the next document of the listing
UpdateLinksStep ==
  /\ phase = "rewrite"
  /\ rewriteTodo # <<>>
  /\ LET p == Head(rewriteTodo)
     IN  out' = WriteFile(out, p, [out[p] EXCEPT
                                     !.text = updateLinks(@, renamedFiles)])
  /\ rewriteTodo' = Tail(rewriteTodo)
  /\ UNCHANGED <<vault, inputType, outName, todo, stack, uniqueAttachments,
                 uniqueNotes, visitedNotes, renamedFiles, phase, exitCode, log,
                 reached>>

\* main returns after the last document
Finish ==
  /\ phase = "rewrite"
  /\ rewriteTodo = <<>>
  /\ phase' = "done"
  /\ exitCode' = 0
  /\ UNCHANGED <<vault, inputType, outName, todo, stack, out, uniqueAttachments,
                 uniqueNotes, visitedNotes, renamedFiles, rewriteTodo, log,
                 reached>>

\* ------------------------------------------------------------------------
\* The vaults of the model
\* ------------------------------------------------------------------------

\* Link targets as written
sX1 == <<"d1", "/", "x", ".", "png">>
sX2 == <<"d2", "/", "x", ".", "png">>
sY2 == <<"d2", "/", "y", ".", "png">>
sXrel == <<".", "/", "x", ".", "png">>
sB == <<"B">>
sA1 == <<"d1", "/", "A">>
sA2 == <<"d2", "/", "A">>
sN == <<"d2", "/", "N">>
sB1 == <<"d1", "/", "B">>
sMissing == <<"d2", "/", "M">>
sMissingBare == <<"M">>
sMissingSpaced == <<"M", " ", "z">>
sMissingAtt == <<"d2", "/", "z", ".", "png">>
sUrlAtt == <<"http://", "x", ".", "png">>
sXj == <<"d2", "/", "x", ".", "jpg">>
sUrlNote == <<"http://", "B">>

\* Paths of the store
pA1 == VAULT_DIR \o << <<"d1">>, <<"A", ".", "md">> >>
pB == VAULT_DIR \o << <<"d1">>, <<"B", ".", "md">> >>
pX1 == VAULT_DIR \o << <<"d1">>, <<"x", ".", "png">> >>
pA2 == VAULT_DIR \o << <<"d2">>, <<"A", ".", "md">> >>
pN == VAULT_DIR \o << <<"d2">>, <<"N", ".", "md">> >>
pX2 == VAULT_DIR \o << <<"d2">>, <<"x", ".", "png">> >>
pY2 == VAULT_DIR \o << <<"d2">>, <<"y", ".", "png">> >>
pXj == VAULT_DIR \o << <<"d2">>, <<"x", ".", "jpg">> >>

File(path, text, perm) == [path |-> path, text |-> text, perm |-> perm]

\* Every sequence over S of length at most n
RECURSIVE SeqsUpTo(_, _)
SeqsUpTo(S, n) ==
  IF n = 0 THEN {<<>>}
  ELSE LET shorter == SeqsUpTo(S, n - 1)
       IN  shorter \cup {Append(q, x) : q \in shorter, x \in S}

\* The links the seed note A.md may hold
PoolA ==
  {WikiLink(sX2), WikiLink(sY2), WikiLink(sXrel), WikiLink(sB), MdLink(sA2),
   WikiLink(sN), WikiLink(sMissing), WikiLink(sMissingBare)}

\* Texts of A.md with links of other forms: a bare name with a space and
\* an attachment with a path, neither of them in the store, and targets
\* that begin with a URI scheme
FormsA ==
  {<<Blob("A"), MdLink(sMissingSpaced)>>,
   <<Blob("A"), WikiLink(sMissingAtt), WikiLink(sB)>>,
   <<Blob("A"), WikiLink(sUrlAtt), MdLink(sUrlNote), WikiLink(sX2)>>,
   <<Blob("A"), WikiLink(sXj), WikiLink(sXrel)>>,
   <<Blob("A"), WikiLink(sXj), WikiLink(sXrel), WikiLink(sN)>>,
   <<Blob("A"), WikiLink(sB), WikiAlias(sB, <<"al">>)>>,
   <<Blob("A"), WikiLink(sXrel), WikiLink(sX2), WikiLink(sB), WikiLink(sB1)>>}

TextsA == {<<Blob("A")>> \o l : l \in SeqsUpTo(PoolA, MaxLinks)} \cup FormsA

TextsB == {<<Blob("B")>>, <<Blob("B"), WikiLink(sA1)>>, <<Blob("B"), WikiLink(sX2)>>}

TextsA2 == {<<Blob("M")>>, <<Blob("M"), WikiLink(sA1)>>}

TextsN ==
  {<<Blob("N")>>, <<Blob("N"), WikiLink(sXrel)>>,
   <<Blob("N"), WikiLink(sXrel), WikiLink(sX1)>>}

\* d2/x.png: absent, the bytes of d1/x.png, other bytes, or other bytes that
\* the process may not read
FilesX2 ==
  {<<>>, <<File(pX2, <<Blob("p")>>, "r")>>, <<File(pX2, <<Blob("q")>>, "r")>>,
   <<File(pX2, <<Blob("q")>>, "-")>>}

\* The notes besides the seed: at most one of them holds a link.
OtherNotes ==
  {n \in [b : TextsB, a2 : TextsA2, n : TextsN] :
     Cardinality({t \in {n.b, n.a2, n.n} : Len(t) > 1}) <= 1}

\* The files are listed in the order a traversal of the store meets them.
Vaults ==
  {<<File(pA1, a, "r"), File(pB, o.b, "r"), File(pX1, <<Blob("p")>>, "r"),
     File(pA2, o.a2, "r"), File(pN, o.n, "r")>> \o x2
     \o <<File(pY2, <<Blob("p")>>, "r"), File(pXj, <<Blob("h")>>, "r")>> :
     a \in TextsA, o \in OtherNotes, x2 \in FilesX2}

\* No two contents of the store share a digest.
NoDigestCollision ==
  LET texts == {vault[i].text : i \in 1..Len(vault)}
  IN  Cardinality({Sha256Hex8(t) : t \in texts}) = Cardinality(texts)

\* The inputs of a run: the document d1/A.md, or the folder d1 with its two
\* documents.
Inputs ==
  {[type |-> "file", name |-> <<"A">>, seeds |-> <<pA1>>],
   [type |-> "folder", name |-> <<"d1">>, seeds |-> <<pA1, pB>>]}

Init ==
  /\ vault \in Vaults
  /\ \E in \in Inputs :
       /\ inputType = in.type
       /\ outName = in.name
       /\ todo = in.seeds
  /\ stack = <<>>
  /\ out = EmptyMap
  /\ uniqueAttachments = <<>>
  /\ uniqueNotes = <<>>
  /\ visitedNotes = {}
  /\ renamedFiles = EmptyMap
  /\ phase = "walk"
  /\ rewriteTodo = <<>>
  /\ exitCode = -1
  /\ log = {}
  /\ reached = {}

Next ==
  \/ StartSeed
  \/ AttachmentStep
  \/ NoteStep
  \/ BeginRewrite
  \/ UpdateLinksStep
  \/ Finish

Spec == Init /\ [][Next]_vars

\* ------------------------------------------------------------------------
\* Observations on a run
\* ------------------------------------------------------------------------

\* Every seed has been walked and the rewrite has not begun.
WalkComplete == phase = "walk" /\ stack = <<>> /\ todo = <<>>

\* The files of the output tree that hold the bytes of the store file p
CopiesOfContent(p) == {g \in DOMAIN out : out[g].text = VaultEntry(p).text}

\* The files of the output tree that are exports of the store file p
ExportsOf(p) == {g \in DOMAIN out : out[g].src = p}

\* stem_hash.ext for the store file p, the hash taken from p's own bytes
HashedName(p) ==
  StemOfName(Basename(p)) \o <<"_", Sha256Hex8(VaultEntry(p).text)>>
    \o ExtOfName(Basename(p))

\* ------------------------------------------------------------------------
\* C1
\* ------------------------------------------------------------------------

\* C1: when the walk is complete, the bytes of every store file that a link
\* resolved to are held by exactly one file of the output tree, however
\* many reached files share those bytes.
C1_OneCopyPerContent ==
  WalkComplete => \A p \in reached : Cardinality(CopiesOfContent(p)) = 1

\* ------------------------------------------------------------------------
\* C2
\* ------------------------------------------------------------------------

\* C2: when the walk is complete, any two store files that links resolved
\* to and that share a basename but not their bytes are both held by the
\* output tree, each under stem_hash.ext with the hash of its own bytes.
C2_CollidingNamesBothKept ==
  WalkComplete =>
    \A p, q \in reached :
      (/\ p # q
       /\ Basename(p) = Basename(q)
       /\ VaultEntry(p).text # VaultEntry(q).text)
      => \A f \in {p, q} :
           \E g \in DOMAIN out :
             /\ Basename(g) = HashedName(f)
             /\ out[g].text = VaultEntry(f).text

\* ------------------------------------------------------------------------
\* C3
\* ------------------------------------------------------------------------

\* The document at store path p holds a link that resolves to q.
LinksTo(p, q) ==
  \E i \in 1..Len(MatchedLinks(VaultEntry(p).text)) :
    resolveFilePath(p, MatchedLinks(VaultEntry(p).text)[i].s) = q

\* The note links of the store, as resolveAndCopyNotes receives them
AllNoteLinks ==
  UNION {Range(parseMarkdownForLinks(vault[i].text).notes) : i \in 1..Len(vault)}

\* One more than the links a document of the store may hold
LinkWeight ==
  1 + Max({Len(MatchedLinks(vault[i].text)) : i \in 1..Len(vault)})

\* The links still to be taken from the open calls
RECURSIVE PendingItems(_)
PendingItems(st) ==
  IF st = <<>> THEN 0 ELSE Len(Head(st).items) + PendingItems(Tail(st))

\* What is left of the walk: the seeds not started and the note links not
\* visited, each weighing more than the links one document adds, and the
\* links of the open calls.
WalkMeasure(seeds, visited, calls) ==
  (Len(seeds) + Cardinality(AllNoteLinks \ visited)) * LinkWeight
    + PendingItems(calls)

\* C3: for every store and seed of the model, cyclic ones included, the
\* walk ends in the rewrite phase or in an abort and never recurses
\* forever: every step that stays in the walk strictly lowers a measure
\* that is a natural number, and the walk is never left with an open call
\* it cannot continue.
C3_WalkTerminates ==
  /\ [][(phase = "walk" /\ phase' = "walk")
          => WalkMeasure(todo', visitedNotes', stack')
               < WalkMeasure(todo, visitedNotes, stack)]_vars
  /\ [](phase = "walk" /\ stack # <<>>
          => Head(stack).items # <<>> /\ Len(stack) + 2 <= MaxStack)

\* The walk went round two documents that link to each other and the
\* rewrite phase began.
C3_CycleWalked ==
  /\ phase = "rewrite"
  /\ \E p, q \in reached : p # q /\ LinksTo(p, q) /\ LinksTo(q, p)

\* ------------------------------------------------------------------------
\* C4
\* ------------------------------------------------------------------------

\* C4: when d1/A.md links to d1/B.md and d1/B.md links back, the complete
\* walk leaves exactly one export of each, with the document d1/A.md as
\* the seed and with the folder d1 as the seed.
C4_CycleExportedOnce ==
  (WalkComplete /\ LinksTo(pA1, pB) /\ LinksTo(pB, pA1))
    => Cardinality(ExportsOf(pA1)) = 1 /\ Cardinality(ExportsOf(pB)) = 1

\* ------------------------------------------------------------------------
\* C5
\* ------------------------------------------------------------------------

\* The documents of the output tree
ExportedDocs == {g \in DOMAIN out : IsMarkdownName(Basename(g))}

\* The positions of the links of a text
LinkItems(text) ==
  {i \in 1..Len(text) : text[i].k \in {"wiki", "md"} /\ ~HasScheme(text[i].t)}

\* The store path that link i of the exported document g resolved to when
\* the walk read the document
OriginalTarget(g, i) ==
  resolveFilePath(out[g].src, processLink(VaultEntry(out[g].src).text[i].t).s)

\* The file name a link target stands for: the target decoded, with the
\* document extension when it has none, without any directory
TargetName(t) == BasenameStr(processLink(t).s)

\* C5: once the rewrite phase has finished, every link of every exported
\* document whose target exists in the store names a file that exists in
\* the output tree.
C5_ClosedWorld ==
  phase = "done" =>
    \A g \in ExportedDocs :
      \A i \in LinkItems(out[g].text) :
        OriginalTarget(g, i) \in VaultPaths
          => \E h \in DOMAIN out : Basename(h) = TargetName(out[g].text[i].t)

\* ------------------------------------------------------------------------
\* C6
\* ------------------------------------------------------------------------

\* A step that changes neither the rename table nor a registry
TablesKept ==
  /\ renamedFiles' = renamedFiles
  /\ uniqueAttachments' = uniqueAttachments
  /\ uniqueNotes' = uniqueNotes

\* C6: the rewrite phase begins only from a walk that has returned from
\* every call and has no seed left; once it has begun, the rename table and
\* the two registries never change; after an abort no step follows, so the
\* rewrite phase never runs.
C6_RewriteOnlyAfterWalk ==
  /\ [][(phase # "rewrite" /\ phase' = "rewrite")
          => (phase = "walk" /\ stack = <<>> /\ todo = <<>>)]_vars
  /\ [][(phase \in {"rewrite", "done"}) => TablesKept]_vars
  /\ [][(phase \in {"aborted", "exited"}) => (phase' = phase /\ out' = out)]_vars

\* A walk over two seeds recorded a rename and the rewrite phase then ran
\* to its end.
C6_RewriteRan ==
  /\ phase = "done"
  /\ inputType = "folder"
  /\ DOMAIN renamedFiles # {}
  /\ \E g \in ExportedDocs : out[g].text # VaultEntry(out[g].src).text

\* ------------------------------------------------------------------------
\* C7
\* ------------------------------------------------------------------------

\* The store file p was exported under a name other than its own.
Renamed(p) == \E h \in ExportsOf(p) : Basename(h) # Basename(p)

\* C7: once the rewrite phase has finished, every link of an exported
\* document whose target was exported under a content-derived name carries
\* the name of an export of that target, whatever the order of the walk
\* and however the link is written.
C7_LinksCarryFinalName ==
  phase = "done" =>
    \A g \in ExportedDocs :
      \A i \in LinkItems(out[g].text) :
        (OriginalTarget(g, i) \in VaultPaths /\ Renamed(OriginalTarget(g, i)))
          => \E h \in ExportsOf(OriginalTarget(g, i)) :
               Basename(h) = TargetName(out[g].text[i].t)

\* ------------------------------------------------------------------------
\* C8
\* ------------------------------------------------------------------------

\* The exports the walk names: the files of attachments/ and references/
NamedExports ==
  {g \in DOMAIN out : Dirname(g) \in {globalAttachmentsDir, referencesFolder}}

\* C8: in every state of every run, an exported file that does not bear its
\* source's name bears stem_hash.ext with the stem and extension of its
\* source and the hash of its source's bytes, and every name the rename
\* table holds is such a name of a store file; the name depends on nothing
\* else, neither on the order of the walk nor on whether it was given to a
\* new export or to one renamed afterwards.
C8_UniqueNameFromContent ==
  /\ \A g \in NamedExports :
       Basename(g) # Basename(out[g].src) => Basename(g) = HashedName(out[g].src)
  /\ \A k \in DOMAIN renamedFiles :
       \E p \in VaultPaths : renamedFiles[k] = HashedName(p)

\* Two exports bear content-derived names: one renamed after its export,
\* one exported under its unique name.
C8_BothRenamed ==
  \E p, q \in reached :
    /\ p # q
    /\ Basename(p) = Basename(q)
    /\ Renamed(p) /\ Renamed(q)

\* ------------------------------------------------------------------------
\* C9
\* ------------------------------------------------------------------------

\* The link the walk takes next
NextLink == Head(Head(stack).items)

\* The walk is about to take a link whose target is not in the store.
MissingTargetNext ==
  /\ phase = "walk"
  /\ stack # <<>>
  /\ resolveFilePath(Head(stack).base, NextLink) \notin VaultPaths
  /\ Head(stack).fn = "notes" => NextLink \notin visitedNotes

\* The messages l hold a warning that the target of link was not found.
WarnedOf(link, l) ==
  \E what \in {"Note not found", "Attachment not found", "Source file not found"} :
    Msg("warn", what, link) \in l

\* C9: the step that takes a link whose target is not in the store logs a
\* warning for it and leaves the run in the walk, whether the link is a
\* bare name or a path and whether it points to a note or an attachment.
C9_MissingTargetOnlyWarns ==
  [][MissingTargetNext => (phase' = "walk" /\ WarnedOf(NextLink, log'))]_vars

\* ------------------------------------------------------------------------
\* C10
\* ------------------------------------------------------------------------

\* The run logged that the source of a copy was not found.
SourceMissing == \E m \in log : m.what = "Source file not found"

\* C10: a run that has aborted on an input/output failure, every file it
\* was to copy being in the store, has printed an error message and ends
\* with an exit status other than zero.
C10_AbortExitsNonZero ==
  (phase \in {"aborted", "exited"} /\ ~SourceMissing)
    => exitCode # 0 /\ \E m \in log : m.lvl = "error"

\* ------------------------------------------------------------------------
\* C11
\* ------------------------------------------------------------------------

\* The output directory lies under the working directory and the store
\* under VAULT_DIR, so no file of the store is inside the output root.
InsideOutputRoot(p) == Len(p) > Len(OutputDir) /\ SubSeq(p, 1, Len(OutputDir)) = OutputDir

\* The directory the walk is to place the store file p in
PlaceOf(p) ==
  IF IsMarkdownName(Basename(p)) THEN referencesFolder ELSE globalAttachmentsDir

\* C11: when the walk is complete, the bytes of every store file a link
\* resolved to, none of which is inside the output root, are held by a
\* file placed directly in references/ for a note and directly in
\* attachments/ for an attachment.
C11_FlatPlacement ==
  WalkComplete =>
    \A p \in reached :
      ~InsideOutputRoot(p)
        => \E g \in CopiesOfContent(p) : Dirname(g) = PlaceOf(p)

\* ------------------------------------------------------------------------
\* C12
\* ------------------------------------------------------------------------

\* The text of the store document the exported document g was copied from
OriginalText(g) == VaultEntry(out[g].src).text

\* C12: once the rewrite phase has finished, every link of an exported
\* document for which resolveFilePath found no file stands in the
\* document as it was written.
C12_UnresolvedLinkUnchanged ==
  phase = "done" =>
    \A g \in ExportedDocs :
      \A i \in LinkItems(out[g].text) :
        OriginalTarget(g, i) = Null => out[g].text[i] = OriginalText(g)[i]

\* ------------------------------------------------------------------------
\* C13
\* ------------------------------------------------------------------------

\* The string begins with scheme://
BeginsWithScheme(t) == t # <<>> /\ Head(t) = "http://"

\* The link strings the walk holds: those of the open calls, of the visited
\* set, of the registries, of the rename table and of the log
HeldLinks ==
  UNION {Range(stack[i].items) : i \in 1..Len(stack)}
    \cup visitedNotes
    \cup {uniqueAttachments[i].ref : i \in 1..Len(uniqueAttachments)}
    \cup {uniqueNotes[i].ref : i \in 1..Len(uniqueNotes)}
    \cup DOMAIN renamedFiles
    \cup {m.arg : m \in log}

\* C13: in every state, no link string the walk holds begins with a URI
\* scheme, so such a target is neither parsed into a reference, resolved
\* nor copied; and every link of an exported document whose target begins
\* with a scheme stands as it was written, before and after the rewrite.
C13_SchemeLinksUntouched ==
  /\ \A l \in HeldLinks : ~BeginsWithScheme(l)
  /\ \A g \in ExportedDocs :
       \A i \in 1..Len(OriginalText(g)) :
         BeginsWithScheme(OriginalText(g)[i].t)
           => out[g].text[i] = OriginalText(g)[i]

\* The rewrite phase has finished over a document that holds links with a
\* scheme next to a link that was exported.
C13_SchemeLinkRewritten ==
  /\ phase = "done"
  /\ \E g \in ExportedDocs :
       /\ \E i \in 1..Len(out[g].text) : BeginsWithScheme(out[g].text[i].t)
       /\ \E i \in LinkItems(out[g].text) : OriginalTarget(g, i) \in reached

\* ------------------------------------------------------------------------
\* C14
\* ------------------------------------------------------------------------

\* C14: in every state, an export that bears a content-derived name shares
\* its directory with another export whose source has the same basename;
\* with no such entry a file is exported under its natural basename.
C14_UniqueNameOnlyOnCollision ==
  (phase \notin {"aborted", "exited"} /\ ~SourceMissing) => \A g \in NamedExports :
    Basename(g) # Basename(out[g].src)
      => \E h \in NamedExports :
           /\ h # g
           /\ Dirname(h) = Dirname(g)
           /\ Basename(out[h].src) = Basename(out[g].src)

\* ------------------------------------------------------------------------
\* C15
\* ------------------------------------------------------------------------

\* The output file h is an export of a store file with the bytes of p.
HoldsContentOf(h, p) == VaultEntry(out[h].src).text = VaultEntry(p).text

\* C15: once the rewrite phase has finished, every link of an exported
\* document whose target the walk resolved, from that document, to a store
\* file that was exported names an output file holding that store file's
\* content.
C15_LinkNamesItsOwnTarget ==
  phase = "done" =>
    \A g \in ExportedDocs :
      \A i \in LinkItems(out[g].text) :
        (OriginalTarget(g, i) \in VaultPaths
           /\ \E h \in DOMAIN out : HoldsContentOf(h, OriginalTarget(g, i)))
          => \E h \in DOMAIN out :
               /\ Basename(h) = TargetName(out[g].text[i].t)
               /\ HoldsContentOf(h, OriginalTarget(g, i))

\* ------------------------------------------------------------------------
\* C16
\* ------------------------------------------------------------------------

\* The store files the links of the note p resolve to
ResolvedLinks(p) ==
  LET text == VaultEntry(p).text
  IN  {resolveFilePath(p, processLink(text[i].t).s) : i \in LinkItems(text)}
        \cap VaultPaths

\* The store files within n links of the files of S, through notes only
RECURSIVE ReachableFrom(_, _)
ReachableFrom(S, n) ==
  IF n = 0 THEN S
  ELSE ReachableFrom(
         S \cup UNION {ResolvedLinks(p) : p \in {q \in S : IsMarkdownName(Basename(q))}},
         n - 1)

\* The seeds of the run
Seeds == {out[g].src : g \in {h \in DOMAIN out : h \notin NamedExports}}

\* C16: when the walk completes, every store file reachable from a seed
\* through links that resolve to existing files has a copy of its content
\* in the output tree.
C16_ReachableExported ==
  WalkComplete =>
    \A p \in ReachableFrom(Seeds, Len(vault)) : CopiesOfContent(p) # {}

\* ------------------------------------------------------------------------
\* C17
\* ------------------------------------------------------------------------

\* A step that keeps every key of the rename table with its value
RenameTableExtended ==
  \A k \in DOMAIN renamedFiles :
    k \in DOMAIN renamedFiles' /\ renamedFiles'[k] = renamedFiles[k]

\* C17: no step of the walk removes a key of the rename table or changes
\* the value recorded under it.
C17_RenameTableAppendOnly == [][(phase = "walk") => RenameTableExtended]_vars

\* ------------------------------------------------------------------------
\* C18
\* ------------------------------------------------------------------------

\* The walk is inside resolveAndCopyNotes, about to take a note link.
NoteNext == phase = "walk" /\ stack # <<>> /\ Head(stack).fn = "notes"

\* A step that exports nothing, records nothing and logs nothing
NoteRecordsKept ==
  /\ out' = out
  /\ uniqueNotes' = uniqueNotes
  /\ renamedFiles' = renamedFiles
  /\ log' = log
  /\ reached' = reached

\* C18: no step removes an element of the visited set; a step that takes a
\* note link whose string is in the set resolves and exports nothing; a step
\* that takes any other note link puts its string in the set, so that each
\* string is resolved and exported at most once in a run; and no two
\* entries of the notes registry were entered for the same string.
C18_VisitedOnce ==
  /\ [][visitedNotes \subseteq visitedNotes']_vars
  /\ [][(NoteNext /\ NextLink \in visitedNotes) => NoteRecordsKept]_vars
  /\ [][(NoteNext /\ NextLink \notin visitedNotes) => NextLink \in visitedNotes']_vars
  /\ [](\A i, j \in 1..Len(uniqueNotes) :
          uniqueNotes[i].ref = uniqueNotes[j].ref => i = j)

\* A complete walk read a document that links to one note twice, once with
\* alias text and once without, and exported that note once.
C18_AliasRevisited ==
  /\ WalkComplete
  /\ \E g \in ExportedDocs :
       \E i, j \in LinkItems(OriginalText(g)) :
         /\ i # j
         /\ OriginalText(g)[i].t = OriginalText(g)[j].t
         /\ OriginalText(g)[i].a # OriginalText(g)[j].a
         /\ processLink(OriginalText(g)[i].t).s \in visitedNotes
         /\ Cardinality(ExportsOf(OriginalTarget(g, i))) = 1

\* ------------------------------------------------------------------------
\* C19
\* ------------------------------------------------------------------------

\* The walk is inside resolveAndCopyAttachments, about to take a link.
AttachmentNext == phase = "walk" /\ stack # <<>> /\ Head(stack).fn = "att"

\* The file the link the walk takes next resolves to
NextTarget == resolveFilePath(Head(stack).base, NextLink)

\* The registry holds an entry with the basename of the store file p whose
\* file has the bytes of p.
DedupHit(reg, p) ==
  /\ p \in VaultPaths
  /\ VaultEntry(p).perm = "r"
  /\ \E i \in 1..Len(reg) :
       /\ Basename(reg[i].path) = Basename(p)
       /\ Exists(out, reg[i].path)
       /\ Content(out, reg[i].path) = VaultEntry(p).text

\* A step that leaves the output tree, the registries and the rename table
\* as they were
ExportsKept ==
  /\ out' = out
  /\ uniqueAttachments' = uniqueAttachments
  /\ uniqueNotes' = uniqueNotes
  /\ renamedFiles' = renamedFiles

\* C19: a step that takes a link to a file whose bytes an entry of the
\* registry with the same basename already holds changes neither the output
\* tree nor a registry nor the rename table, for attachments and for notes
\* that reach the content check.
C19_ContentMatchKeepsAll ==
  /\ [][(AttachmentNext /\ DedupHit(uniqueAttachments, NextTarget)) => ExportsKept]_vars
  /\ [][(NoteNext /\ NextLink \notin visitedNotes /\ DedupHit(uniqueNotes, NextTarget)
            /\ ~InOutputDir(Basename(NextTarget))) => ExportsKept]_vars

\* A complete walk passed over an attachment and a note whose content was
\* already exported under their names.
C19_BothPassedOver ==
  /\ WalkComplete
  /\ \E m \in log : m.what = "Attachment already exists"
  /\ \E m \in log : m.what = "Note already exists"

\* ------------------------------------------------------------------------
\* C20
\* ------------------------------------------------------------------------

\* The walk is about to take a link that resolves to a path whose file is
\* missing or may not be read.
UnreadableNext ==
  /\ AttachmentNext \/ (NoteNext /\ NextLink \notin visitedNotes)
  /\ NextTarget # Null
  /\ ReadErr(out, NextTarget) # "OK"

\* A step that exports no copy of the file the link resolves to and leaves
\* the walk running
SkippedAndRunning ==
  /\ phase' = "walk"
  /\ \A g \in DOMAIN out' : out'[g].src = NextTarget => g \in DOMAIN out

\* C20: a step that takes a link to a file that is missing or unreadable
\* skips that file and the walk goes on: the run neither aborts nor exits.
C20_UnreadableSourceSkipped == [][UnreadableNext => SkippedAndRunning]_vars

\* ------------------------------------------------------------------------
\* C21
\* ------------------------------------------------------------------------

\* The walk is about to take a link to a store file that exists and may
\* not be read.
DeniedNext ==
  /\ AttachmentNext \/ (NoteNext /\ NextLink \notin visitedNotes)
  /\ NextTarget \in VaultPaths
  /\ VaultEntry(NextTarget).perm # "r"
  /\ NoteNext => ~InOutputDir(Basename(NextTarget))

\* The registry holds an entry with the basename and the size of the store
\* file p, so that the content check goes on to read both files.
ComparedByContent(reg, p) ==
  \E i \in 1..Len(reg) :
    /\ Basename(reg[i].path) = Basename(p)
    /\ Exists(out, reg[i].path)
    /\ SizeOf(Content(out, reg[i].path)) = SizeOf(VaultEntry(p).text)

\* The content check of the next step reads a file that may not be read.
CompareReadDenied ==
  /\ DeniedNext
  /\ ComparedByContent(IF Head(stack).fn = "att" THEN uniqueAttachments
                        ELSE uniqueNotes, NextTarget)

\* The run ends in this step, and ends where it stood: nothing is renamed
\* or recorded after the failure.
AbortsAtOnce == phase' \in {"aborted", "exited"} /\ ExportsKept

\* C21: a step in which a read, a copy or a rename is denied ends the run,
\* and when the denied read is the one that compares the candidate with an
\* exported entry the run ends there, with the tree and the tables as they
\* were: the failure is not swallowed.
C21_DeniedAccessAborts ==
  /\ [][DeniedNext => phase' \in {"aborted", "exited"}]_vars
  /\ [][CompareReadDenied => AbortsAtOnce]_vars

\* ------------------------------------------------------------------------
\* C22
\* ------------------------------------------------------------------------

\* The keys of a registry that lie in the directory dir
KeysIn(reg, dir) ==
  {reg[i].path : i \in {j \in 1..Len(reg) : Dirname(reg[j].path) = dir}}

\* The files of the output tree that lie in the directory dir
FilesIn(dir) == {g \in DOMAIN out : Dirname(g) = dir}

\* C22: while the walk runs, the keys of the attachments registry under
\* attachments/ are exactly the files of attachments/, and the keys of the
\* notes registry under references/ are exactly the files of references/.
C22_RegistryMatchesTree ==
  phase = "walk" =>
    /\ KeysIn(uniqueAttachments, globalAttachmentsDir) = FilesIn(globalAttachmentsDir)
    /\ KeysIn(uniqueNotes, referencesFolder) = FilesIn(referencesFolder)

\* ------------------------------------------------------------------------
\* C23
\* ------------------------------------------------------------------------

\* The target as the statement computes it: T is the decoded target without
\* its path, R the entry under T or T, the result the entry under R or R.
StatedTarget(ren, t) ==
  LET T == BasenameStr(DecodeURIComponent(t))
      R == IF T \in DOMAIN ren THEN ren[T] ELSE T
  IN  IF R \in DOMAIN ren THEN ren[R] ELSE R

\* C23 as stated: once the rewrite phase has finished, every link of every
\* exported document holds the target computed from its original target by
\* a lookup of the decoded target without its path and one further hop
\* (percent-encoded again in an inline link).
C23_LookupByBasename ==
  phase = "done" =>
    \A g \in ExportedDocs : \A i \in LinkItems(OriginalText(g)) :
      out[g].text[i].t =
        IF OriginalText(g)[i].k = "md"
          THEN EncodeURIComponent(StatedTarget(renamedFiles, OriginalText(g)[i].t))
        ELSE StatedTarget(renamedFiles, OriginalText(g)[i].t)

\* The key under which a link is looked up: the decoded target as written,
\* path included, with the document extension when a wikilink has none
KeyOf(it) ==
  LET D == DecodeURIComponent(it.t)
  IN  IF it.k = "wiki" /\ ExtName(it.t) = <<>> THEN D \o <<".", "md">> ELSE D

\* The name the two lookups end at: the entry under the key, or the decoded
\* target without its path; then the entry under that name, or that name
FinalName(ren, it) ==
  LET T == BasenameStr(DecodeURIComponent(it.t))
      R == IF KeyOf(it) \in DOMAIN ren THEN ren[KeyOf(it)] ELSE T
  IN  IF R \in DOMAIN ren THEN ren[R] ELSE R

\* The target a rewritten link holds: the final name, percent-encoded in an
\* inline link
FinalTarget(ren, it) ==
  IF it.k = "md" THEN EncodeURIComponent(FinalName(ren, it)) ELSE FinalName(ren, it)

\* Rename tables with chains of one, two and three names, under a key with
\* a path, and the links looked up in them
ChainName(n) == <<"x", "_", ToString(n), ".", "png">>

ChainTables ==
  {EmptyMap,
   sXrel :> ChainName(1),
   sXrel :> ChainName(1) @@ ChainName(1) :> ChainName(2),
   sXrel :> ChainName(1) @@ ChainName(1) :> ChainName(2) @@ ChainName(2) :> ChainName(3),
   (sB \o <<".", "md">>) :> ChainName(1) @@ ChainName(1) :> ChainName(2)}

ChainLinks ==
  {WikiLink(sXrel), MdLink(sXrel), WikiLink(sX1), WikiLink(ChainName(1)),
   WikiLink(sB), WikiAlias(sB1, <<"al">>), MdLink(sMissingSpaced)}

\* C23, amended: once the rewrite phase has finished, every link of every
\* exported document holds the name the two lookups end at, where the first
\* lookup uses the decoded target as written and falls back to the target
\* without its path, and no third lookup is made; an inline link holds that
\* name percent-encoded.  The same holds of updateLinks on every text made
\* of the links above under every table above, chains of three included
\* (a fact about the function alone, evaluated before the first step).
C23_LookupByLinkText ==
  /\ phase = "done" =>
       \A g \in ExportedDocs : \A i \in LinkItems(OriginalText(g)) :
         out[g].text[i].t = FinalTarget(renamedFiles, OriginalText(g)[i])
  /\ out = EmptyMap =>
       \A ren \in ChainTables : \A it \in ChainLinks :
         updateLinks(<<it>>, ren) = <<[it EXCEPT !.t = FinalTarget(ren, it)]>>

\* The rewrite phase has finished and a link written with a path holds the
\* name recorded under the link as written, which is not the name of its
\* target in the store.
C23_PathKeyFound ==
  /\ phase = "done"
  /\ \E g \in ExportedDocs : \E i \in LinkItems(OriginalText(g)) :
       /\ HasSlash(OriginalText(g)[i].t)
       /\ KeyOf(OriginalText(g)[i]) \in DOMAIN renamedFiles
       /\ out[g].text[i].t = renamedFiles[KeyOf(OriginalText(g)[i])]
       /\ out[g].text[i].t # BasenameStr(OriginalText(g)[i].t)

\* ------------------------------------------------------------------------
\* C24
\* ------------------------------------------------------------------------

\* resolveAndCopyAttachments as a whole: the loop over the links of one
\* document, from the tree o, the registry reg and the rename table ren,
\* up to its end or to the iteration that ends the run
RECURSIVE resolveAndCopyAttachments(_, _, _, _, _)
resolveAndCopyAttachments(o, reg, ren, basePath, attachments) ==
  IF attachments = <<>> THEN Outcome(o, reg, ren, "ok", {})
  ELSE LET r == AttachmentIter(o, reg, ren, basePath, Head(attachments))
       IN  IF r.status # "ok" THEN r
           ELSE resolveAndCopyAttachments(r.out, r.reg, r.ren, basePath,
                                          Tail(attachments))

\* A sequence in the opposite order
RECURSIVE Reverse(_)
Reverse(q) == IF q = <<>> THEN <<>> ELSE Append(Reverse(Tail(q)), Head(q))

\* The files of attachments/ in the tree o: their names with their contents
AttachmentFiles(o) ==
  {<<Basename(g), o[g].text>> : g \in {h \in DOMAIN o : Dirname(h) = globalAttachmentsDir}}

\* The tree that holds only the document g of the output tree
OnlyDoc(g) == [h \in {g} |-> out[h]]

\* The walk over the document g, run on the links of g in the opposite
\* order
ReversedWalk(g) ==
  resolveAndCopyAttachments(OnlyDoc(g), <<>>, EmptyMap, out[g].src,
    Reverse(parseMarkdownForLinks(out[g].text).attachments))

\* A complete walk over one seed document that holds attachment links only
AttachmentsOnlyWalk(g) ==
  /\ WalkComplete
  /\ inputType = "file"
  /\ g \in DOMAIN out
  /\ Dirname(g) = OutputDir
  /\ parseMarkdownForLinks(out[g].text).notes = <<>>

\* C24: when the walk over a seed document has completed, the names and
\* contents of the exported attachments are those the walk leaves when it
\* takes the same links of the same store in the opposite order.
C24_OrderIndependent ==
  \A g \in DOMAIN out :
    (AttachmentsOnlyWalk(g) /\ ReversedWalk(g).status = "ok")
      => AttachmentFiles(ReversedWalk(g).out) = AttachmentFiles(out)

====
